---- MODULE Spec2Model ----
(***************************************************************************)
(* A model of peewee_sqlite_jsonfield: the SQLiteJSONField value           *)
(* conversion (db_value / python_value), its query helpers evaluated by    *)
(* the SQLite JSON1 functions, the JSON1 capability probe with its cache,  *)
(* and create_json_index.                                                  *)
(*                                                                         *)
(* Text is a sequence of Unicode code points, bytes a sequence of 0..255.  *)
(* A Python value is a record [t |-> type tag, v |-> payload]; a dict      *)
(* payload is the sequence of its <<key, value>> items in insertion order. *)
(***************************************************************************)
EXTENDS Integers, Sequences, FiniteSets, TLC

(***************************************************************************)
(* Bounds of the model.                                                    *)
(***************************************************************************)
MaxInt == 1
MaxListLen == 2
MaxTextLen == 3
MaxBytesLen == 3
MaxCalls == 2

VARIABLES
  serializer,   \* which (_FAST_DUMPS, _FAST_LOADS) pair _pick_serializer chose
  field,        \* the SQLiteJSONField's configuration
  assigned,     \* the value last handed to db_value
  column,       \* the raw value the column holds / the driver returns
  wrote,        \* how column was produced
  loaded,       \* python_value(column)
  reloaded,     \* python_value(loaded)
  row,          \* query part: the text stored in the queried row
  query,        \* query part: the expression built and what it evaluated to
  json1,        \* whether the SQLite build has the JSON1 functions
  cache,        \* _JSON1_CACHE: handle -> bool
  nextHandle,   \* number of SqliteDatabase(":memory:") objects created so far
  executions,   \* per handle, how many times the probe statement was executed
  indexes,      \* per engine, the sequence of indexes it holds
  noneCalls,    \* number of _check_json1(None) calls made so far
  lastCall,     \* the last call of the probe / DDL part and its outcome
  history       \* create_json_index: the name returned per argument tuple

vars == <<serializer, field, assigned, column, wrote, loaded, reloaded, row,
          query, json1, cache, nextHandle, executions, indexes, noneCalls,
          lastCall, history>>

fieldVars == <<assigned, column, wrote, loaded, reloaded>>
queryVars == <<row, query>>
probeVars ==
  <<json1, cache, nextHandle, executions, indexes, noneCalls, lastCall, history>>

(***************************************************************************)
(* Characters.                                                             *)
(***************************************************************************)
Ch == [tab |-> 9, lf |-> 10, ff |-> 12, cr |-> 13, bs |-> 8, space |-> 32,
       quote |-> 34, dollar |-> 36, comma |-> 44, minus |-> 45, dot |-> 46,
       slash |-> 47, zero |-> 48, one |-> 49, colon |-> 58, lbrack |-> 91,
       backslash |-> 92, rbrack |-> 93, underscore |-> 95, a |-> 97,
       b |-> 98, c |-> 99, d |-> 100, e |-> 101, f |-> 102, i |-> 105,
       l |-> 108, n |-> 110, r |-> 114, s |-> 115, t |-> 116, u |-> 117,
       x |-> 120, lbrace |-> 123, rbrace |-> 125, eacute |-> 233]

IsDigit(c) == c \in 48..57

RECURSIVE IntDigits(_)
IntDigits(n) ==
  IF n < 10 THEN <<48 + n>> ELSE IntDigits(n \div 10) \o <<48 + (n % 10)>>

RECURSIVE DigitsValue(_)
DigitsValue(ds) ==
  IF ds = <<>> THEN 0
  ELSE 10 * DigitsValue(SubSeq(ds, 1, Len(ds) - 1)) + (ds[Len(ds)] - 48)

HexDigit(h) == IF h < 10 THEN 48 + h ELSE 87 + h
HexVal(c) ==
  IF c \in 48..57 THEN c - 48
  ELSE IF c \in 97..102 THEN c - 87
  ELSE IF c \in 65..70 THEN c - 55
  ELSE -1
Hex4(c) ==
  <<HexDigit((c \div 4096) % 16), HexDigit((c \div 256) % 16),
    HexDigit((c \div 16) % 16), HexDigit(c % 16)>>

(***************************************************************************)
(* Python values.                                                          *)
(***************************************************************************)
PyNone == [t |-> "none", v |-> 0]
PyBool(b) == [t |-> "bool", v |-> b]
PyInt(n) == [t |-> "int", v |-> n]
PyFloat(neg, whole, frac) ==
  [t |-> "float", v |-> [neg |-> neg, whole |-> whole, frac |-> frac]]
PyStr(s) == [t |-> "str", v |-> s]
PyBytes(bs) == [t |-> "bytes", v |-> bs]
PyList(xs) == [t |-> "list", v |-> xs]
PyDict(items) == [t |-> "dict", v |-> items]
PyOther == [t |-> "other", v |-> 0]     \* any other type (a set, an object)
Raised == [t |-> "raise", v |-> 0]      \* the call raised an exception
Unset == [t |-> "unset", v |-> 0]       \* model: nothing there yet
EmptyDict == PyDict(<<>>)

\* dict.__setitem__: a present key keeps its position and takes the value
DictSet(items, k, val) ==
  IF \E j \in 1..Len(items) : items[j][1] = k
  THEN [j \in 1..Len(items) |->
          IF items[j][1] = k THEN <<k, val>> ELSE items[j]]
  ELSE Append(items, <<k, val>>)

\* Python ==, between values of the same type (dicts compare without order,
\* -0.0 equals 0.0)
RECURSIVE PyEq(_, _)
PyEq(x, y) ==
  IF x.t # y.t THEN FALSE
  ELSE IF x.t = "list" THEN
    /\ Len(x.v) = Len(y.v)
    /\ \A j \in 1..Len(x.v) : PyEq(x.v[j], y.v[j])
  ELSE IF x.t = "dict" THEN
    /\ Len(x.v) = Len(y.v)
    /\ \A j \in 1..Len(x.v) : \E k \in 1..Len(y.v) :
         x.v[j][1] = y.v[k][1] /\ PyEq(x.v[j][2], y.v[k][2])
  ELSE IF x.t = "float" THEN
    \/ x.v = y.v
    \/ /\ x.v.whole = 0 /\ x.v.frac = <<>>
       /\ y.v.whole = 0 /\ y.v.frac = <<>>
  ELSE x.v = y.v

(***************************************************************************)
(* 0. The serializer pair: orjson, else ujson, else the stdlib json.       *)
(***************************************************************************)
\* the first library of the preference order that can be imported
_pick_serializer(installed) ==
  IF "orjson" \in installed THEN "orjson"
  ELSE IF "ujson" \in installed THEN "ujson"
  ELSE "json"

\* what the encoder can encode (bytes, sets and objects make it raise)
RECURSIVE Serializable(_)
Serializable(val) ==
  IF val.t \in {"none", "bool", "int", "float", "str"} THEN TRUE
  ELSE IF val.t = "list" THEN \A j \in 1..Len(val.v) : Serializable(val.v[j])
  ELSE IF val.t = "dict" THEN
    \A j \in 1..Len(val.v) : Serializable(val.v[j][2])
  ELSE FALSE

\* one character of a string, as the encoder writes it
EscapeChar(c, ser, ensure_ascii) ==
  IF c = Ch.quote THEN <<Ch.backslash, Ch.quote>>
  ELSE IF c = Ch.backslash THEN <<Ch.backslash, Ch.backslash>>
  ELSE IF c = Ch.lf THEN <<Ch.backslash, Ch.n>>
  ELSE IF c = Ch.cr THEN <<Ch.backslash, Ch.r>>
  ELSE IF c = Ch.tab THEN <<Ch.backslash, Ch.t>>
  ELSE IF c = Ch.bs THEN <<Ch.backslash, Ch.b>>
  ELSE IF c = Ch.ff THEN <<Ch.backslash, Ch.f>>
  ELSE IF c < 32 THEN <<Ch.backslash, Ch.u>> \o Hex4(c)
  ELSE IF ser = "ujson" /\ c = Ch.slash THEN <<Ch.backslash, Ch.slash>>
  ELSE IF ser # "orjson" /\ ensure_ascii /\ c > 126
    THEN <<Ch.backslash, Ch.u>> \o Hex4(c)
  ELSE <<c>>

RECURSIVE EncodeChars(_, _, _)
EncodeChars(str, ser, ensure_ascii) ==
  IF str = <<>> THEN <<>>
  ELSE EscapeChar(Head(str), ser, ensure_ascii)
         \o EncodeChars(Tail(str), ser, ensure_ascii)

EncodeStr(str, ser, ensure_ascii) ==
  <<Ch.quote>> \o EncodeChars(str, ser, ensure_ascii) \o <<Ch.quote>>

EncodeInt(n) == IF n < 0 THEN <<Ch.minus>> \o IntDigits(-n) ELSE IntDigits(n)

\* repr of a float: always with a fractional part
EncodeFloat(fl) ==
  (IF fl.neg THEN <<Ch.minus>> ELSE <<>>) \o IntDigits(fl.whole) \o <<Ch.dot>>
    \o (IF fl.frac = <<>> THEN <<Ch.zero>> ELSE fl.frac)

ItemSeparator(ser) == IF ser = "json" THEN <<Ch.comma, Ch.space>> ELSE <<Ch.comma>>
KeySeparator(ser) == IF ser = "json" THEN <<Ch.colon, Ch.space>> ELSE <<Ch.colon>>

RECURSIVE EncodeText(_, _, _)
RECURSIVE EncodeElems(_, _, _)
RECURSIVE EncodeItems(_, _, _)
EncodeElems(xs, ser, ensure_ascii) ==
  IF xs = <<>> THEN <<>>
  ELSE EncodeText(Head(xs), ser, ensure_ascii)
         \o (IF Len(xs) > 1 THEN ItemSeparator(ser) ELSE <<>>)
         \o EncodeElems(Tail(xs), ser, ensure_ascii)
EncodeItems(items, ser, ensure_ascii) ==
  IF items = <<>> THEN <<>>
  ELSE EncodeStr(Head(items)[1], ser, ensure_ascii) \o KeySeparator(ser)
         \o EncodeText(Head(items)[2], ser, ensure_ascii)
         \o (IF Len(items) > 1 THEN ItemSeparator(ser) ELSE <<>>)
         \o EncodeItems(Tail(items), ser, ensure_ascii)
EncodeText(val, ser, ensure_ascii) ==
  CASE val.t = "none" -> <<Ch.n, Ch.u, Ch.l, Ch.l>>
    [] val.t = "bool" -> IF val.v THEN <<Ch.t, Ch.r, Ch.u, Ch.e>>
                         ELSE <<Ch.f, Ch.a, Ch.l, Ch.s, Ch.e>>
    [] val.t = "int" -> EncodeInt(val.v)
    [] val.t = "float" -> EncodeFloat(val.v)
    [] val.t = "str" -> EncodeStr(val.v, ser, ensure_ascii)
    [] val.t = "list" ->
         <<Ch.lbrack>> \o EncodeElems(val.v, ser, ensure_ascii) \o <<Ch.rbrack>>
    [] val.t = "dict" ->
         <<Ch.lbrace>> \o EncodeItems(val.v, ser, ensure_ascii) \o <<Ch.rbrace>>

\* _FAST_DUMPS(obj, ensure_ascii): the text, or the encoder's exception
_FAST_DUMPS(ser, obj, ensure_ascii) ==
  IF Serializable(obj) THEN PyStr(EncodeText(obj, ser, ensure_ascii))
  ELSE Raised

(***************************************************************************)
(* The decoder: a JSON parser over text.  A parse result is                *)
(* [ok, v, i]: whether a value was read, the value, the next position.     *)
(***************************************************************************)
ParseFail == [ok |-> FALSE, v |-> PyNone, i |-> 0]
ParseOk(val, next) == [ok |-> TRUE, v |-> val, i |-> next]

IsWs(c) == c \in {Ch.space, Ch.tab, Ch.lf, Ch.cr}

RECURSIVE SkipWs(_, _)
SkipWs(txt, i) ==
  IF i <= Len(txt) /\ IsWs(txt[i]) THEN SkipWs(txt, i + 1) ELSE i

ParseLiteral(txt, i, word, val) ==
  IF i + Len(word) - 1 <= Len(txt) /\ SubSeq(txt, i, i + Len(word) - 1) = word
  THEN ParseOk(val, i + Len(word))
  ELSE ParseFail

RECURSIVE DigitsEnd(_, _)
DigitsEnd(txt, i) ==
  IF i <= Len(txt) /\ IsDigit(txt[i]) THEN DigitsEnd(txt, i + 1) ELSE i

RECURSIVE StripZeros(_)
StripZeros(ds) ==
  IF ds # <<>> /\ ds[Len(ds)] = Ch.zero
  THEN StripZeros(SubSeq(ds, 1, Len(ds) - 1))
  ELSE ds

\* -? (0 | [1-9][0-9]*) (. [0-9]+)?   (texts here carry no exponent)
ParseNumber(txt, i) ==
  LET neg == txt[i] = Ch.minus
      p == IF neg THEN i + 1 ELSE i
      q == IF p <= Len(txt) /\ txt[p] = Ch.zero THEN p + 1 ELSE DigitsEnd(txt, p)
      whole == DigitsValue(SubSeq(txt, p, q - 1))
      hasFrac == /\ q + 1 <= Len(txt)
                 /\ txt[q] = Ch.dot
                 /\ IsDigit(txt[q + 1])
      e == DigitsEnd(txt, q + 1)
  IN IF q = p THEN ParseFail
     ELSE IF hasFrac
       THEN ParseOk(PyFloat(neg, whole, StripZeros(SubSeq(txt, q + 1, e - 1))), e)
     ELSE ParseOk(PyInt(IF neg THEN -whole ELSE whole), q)

\* the characters of a string up to its closing quote; i is past the opening one
RECURSIVE ParseChars(_, _, _)
ParseChars(txt, i, acc) ==
  IF i > Len(txt) THEN ParseFail
  ELSE IF txt[i] = Ch.quote THEN ParseOk(PyStr(acc), i + 1)
  ELSE IF txt[i] < 32 THEN ParseFail
  ELSE IF txt[i] # Ch.backslash THEN ParseChars(txt, i + 1, Append(acc, txt[i]))
  ELSE IF i + 1 > Len(txt) THEN ParseFail
  ELSE LET c == txt[i + 1] IN
    IF c \in {Ch.quote, Ch.backslash, Ch.slash}
      THEN ParseChars(txt, i + 2, Append(acc, c))
    ELSE IF c = Ch.n THEN ParseChars(txt, i + 2, Append(acc, Ch.lf))
    ELSE IF c = Ch.r THEN ParseChars(txt, i + 2, Append(acc, Ch.cr))
    ELSE IF c = Ch.t THEN ParseChars(txt, i + 2, Append(acc, Ch.tab))
    ELSE IF c = Ch.b THEN ParseChars(txt, i + 2, Append(acc, Ch.bs))
    ELSE IF c = Ch.f THEN ParseChars(txt, i + 2, Append(acc, Ch.ff))
    ELSE IF /\ c = Ch.u
            /\ i + 5 <= Len(txt)
            /\ \A k \in 2..5 : HexVal(txt[i + k]) >= 0
      THEN ParseChars(txt, i + 6,
             Append(acc, 4096 * HexVal(txt[i + 2]) + 256 * HexVal(txt[i + 3])
                           + 16 * HexVal(txt[i + 4]) + HexVal(txt[i + 5])))
    ELSE ParseFail

RECURSIVE ParseValue(_, _)
RECURSIVE ParseElems(_, _, _)
RECURSIVE ParseMembers(_, _, _)

\* i is at the first element; acc holds the elements read so far
ParseElems(txt, i, acc) ==
  LET el == ParseValue(txt, i)
      j == SkipWs(txt, el.i)
  IN IF ~el.ok \/ j > Len(txt) THEN ParseFail
     ELSE IF txt[j] = Ch.comma
       THEN ParseElems(txt, SkipWs(txt, j + 1), Append(acc, el.v))
     ELSE IF txt[j] = Ch.rbrack THEN ParseOk(PyList(Append(acc, el.v)), j + 1)
     ELSE ParseFail

\* i is at the opening quote of a key; acc holds the items read so far
ParseMembers(txt, i, acc) ==
  IF i > Len(txt) \/ txt[i] # Ch.quote THEN ParseFail
  ELSE
    LET key == ParseChars(txt, i + 1, <<>>)
        c == SkipWs(txt, key.i)
    IN IF ~key.ok \/ c > Len(txt) \/ txt[c] # Ch.colon THEN ParseFail
       ELSE
         LET el == ParseValue(txt, SkipWs(txt, c + 1))
             j == SkipWs(txt, el.i)
         IN IF ~el.ok \/ j > Len(txt) THEN ParseFail
            ELSE IF txt[j] = Ch.comma
              THEN ParseMembers(txt, SkipWs(txt, j + 1),
                                DictSet(acc, key.v.v, el.v))
            ELSE IF txt[j] = Ch.rbrace
              THEN ParseOk(PyDict(DictSet(acc, key.v.v, el.v)), j + 1)
            ELSE ParseFail

ParseValue(txt, i) ==
  IF i > Len(txt) THEN ParseFail
  ELSE LET c == txt[i] IN
    IF c = Ch.lbrace THEN
      LET j == SkipWs(txt, i + 1)
      IN IF j <= Len(txt) /\ txt[j] = Ch.rbrace THEN ParseOk(EmptyDict, j + 1)
         ELSE ParseMembers(txt, j, <<>>)
    ELSE IF c = Ch.lbrack THEN
      LET j == SkipWs(txt, i + 1)
      IN IF j <= Len(txt) /\ txt[j] = Ch.rbrack THEN ParseOk(PyList(<<>>), j + 1)
         ELSE ParseElems(txt, j, <<>>)
    ELSE IF c = Ch.quote THEN ParseChars(txt, i + 1, <<>>)
    ELSE IF c = Ch.n THEN ParseLiteral(txt, i, <<Ch.n, Ch.u, Ch.l, Ch.l>>, PyNone)
    ELSE IF c = Ch.t
      THEN ParseLiteral(txt, i, <<Ch.t, Ch.r, Ch.u, Ch.e>>, PyBool(TRUE))
    ELSE IF c = Ch.f
      THEN ParseLiteral(txt, i, <<Ch.f, Ch.a, Ch.l, Ch.s, Ch.e>>, PyBool(FALSE))
    ELSE IF c = Ch.minus \/ IsDigit(c) THEN ParseNumber(txt, i)
    ELSE ParseFail

\* whether the whole text is one JSON value (with whitespace around it)
ParseDocument(txt) ==
  LET r == ParseValue(txt, SkipWs(txt, 1))
  IN IF r.ok /\ SkipWs(txt, r.i) = Len(txt) + 1 THEN r ELSE ParseFail

IsValidJson(txt) == ParseDocument(txt).ok

\* _FAST_LOADS(txt): the decoded value, or the decoder's exception
_FAST_LOADS(txt) ==
  LET r == ParseDocument(txt) IN IF r.ok THEN r.v ELSE Raised

(***************************************************************************)
(* 2. SQLiteJSONField: db_value and python_value.                          *)
(***************************************************************************)
\* bytes.decode("utf-8", errors="ignore"): one- and two-byte sequences decode,
\* every byte that starts no valid sequence is dropped
RECURSIVE Utf8DecodeIgnore(_)
Utf8DecodeIgnore(bs) ==
  IF bs = <<>> THEN <<>>
  ELSE IF bs[1] < 128 THEN <<bs[1]>> \o Utf8DecodeIgnore(Tail(bs))
  ELSE IF bs[1] \in 194..223 /\ Len(bs) >= 2 /\ bs[2] \in 128..191
    THEN <<(bs[1] - 192) * 64 + (bs[2] - 128)>>
           \o Utf8DecodeIgnore(SubSeq(bs, 3, Len(bs)))
  ELSE Utf8DecodeIgnore(Tail(bs))

\* whether bytes.decode("utf-8") would succeed
RECURSIVE Utf8Valid(_)
Utf8Valid(bs) ==
  IF bs = <<>> THEN TRUE
  ELSE IF bs[1] < 128 THEN Utf8Valid(Tail(bs))
  ELSE IF bs[1] \in 194..223 /\ Len(bs) >= 2 /\ bs[2] \in 128..191
    THEN Utf8Valid(SubSeq(bs, 3, Len(bs)))
  ELSE FALSE

\* self.dumps: partial(_FAST_DUMPS, ensure_ascii=ensure_ascii)
FieldDumps(fld, ser, value) == _FAST_DUMPS(ser, value, fld.ensure_ascii)

\* self.loads: the caller's decode function (here one that raises), or _FAST_LOADS
FieldLoads(fld, txt) == IF fld.loads = "raising" THEN Raised ELSE _FAST_LOADS(txt)

\* mutant: "if not value" in place of "if value is None"
db_value_Falsy(fld, ser, value) ==
  IF value \in {PyNone, PyBool(FALSE), PyInt(0), PyStr(<<>>), PyList(<<>>), EmptyDict}
    THEN (IF fld.null_to_empty THEN PyStr(<<Ch.lbrace, Ch.rbrace>>) ELSE PyNone)
  ELSE IF value.t = "str" THEN value
  ELSE FieldDumps(fld, ser, value)

\* mutant: str(value) in place of self.dumps(value) (seen on booleans)
db_value_Str(fld, ser, value) ==
  IF value = PyNone THEN (IF fld.null_to_empty
                          THEN PyStr(<<Ch.lbrace, Ch.rbrace>>) ELSE PyNone)
  ELSE IF value.t = "str" THEN value
  ELSE IF value.t = "bool"
    THEN PyStr(IF value.v THEN <<84, Ch.r, Ch.u, Ch.e>>
               ELSE <<70, Ch.a, Ch.l, Ch.s, Ch.e>>)
  ELSE FieldDumps(fld, ser, value)

db_value(fld, ser, value) ==
  IF value = PyNone THEN (IF fld.null_to_empty
                          THEN PyStr(<<Ch.lbrace, Ch.rbrace>>) ELSE PyNone)
  ELSE IF value.t = "str" THEN value
  ELSE FieldDumps(fld, ser, value)

\* mutant: no try/except around self.loads
_try_load_NoCatch(fld, txt) == FieldLoads(fld, txt)

_try_load(fld, txt) ==
  LET r == FieldLoads(fld, txt) IN IF r = Raised THEN EmptyDict ELSE r

\* mutant: None is returned as it is
python_value_KeepsNone(fld, value) ==
  IF value = PyNone THEN PyNone
  ELSE IF value.t \in {"dict", "list", "int", "float", "bool"} THEN value
  ELSE IF value.t = "bytes" THEN _try_load(fld, Utf8DecodeIgnore(value.v))
  ELSE IF value.t = "str" THEN _try_load(fld, value.v)
  ELSE EmptyDict

\* mutant: list is missing from the isinstance tuple
python_value_NoList(fld, value) ==
  IF value = PyNone THEN EmptyDict
  ELSE IF value.t \in {"dict", "int", "float", "bool"} THEN value
  ELSE IF value.t = "bytes" THEN _try_load(fld, Utf8DecodeIgnore(value.v))
  ELSE IF value.t = "str" THEN _try_load(fld, value.v)
  ELSE EmptyDict

python_value(fld, value) ==
  IF value = PyNone THEN EmptyDict
  ELSE IF value.t \in {"dict", "list", "int", "float", "bool"} THEN value
  ELSE IF value.t = "bytes" THEN _try_load(fld, Utf8DecodeIgnore(value.v))
  ELSE IF value.t = "str" THEN _try_load(fld, value.v)
  ELSE EmptyDict

(***************************************************************************)
(* The values the field part is run on.                                    *)
(***************************************************************************)
SeqsUpTo(S, n) == UNION {[1..k -> S] : k \in 0..n}

ElemStrs == {<<>>, <<Ch.a>>, <<Ch.quote>>, <<Ch.backslash>>, <<Ch.eacute>>}
DictKeys == {<<Ch.a>>, <<Ch.b>>}
Leaves ==
  {PyNone, PyBool(TRUE), PyBool(FALSE)}
    \cup {PyInt(n) : n \in -1..MaxInt}
    \cup {PyFloat(TRUE, 1, <<53>>)}                                  \* -1.5
    \cup {PyStr(str) : str \in ElemStrs}
ListsOf(S, n) == {PyList(xs) : xs \in SeqsUpTo(S, n)}
DictsOf(S) ==
  {EmptyDict}
    \cup {PyDict(<< <<k, x>> >>) : k \in DictKeys, x \in S}
    \cup {PyDict(<< <<k1, x1>>, <<k2, x2>> >>) :
            <<k1, k2>> \in {kk \in DictKeys \X DictKeys : kk[1] # kk[2]},
            <<x1, x2>> \in S \X S}
Nested ==
  LET inner == {x \in ListsOf(Leaves, 1) \cup DictsOf(Leaves) : Len(x.v) <= 1}
  IN {PyList(<<x>>) : x \in inner} \cup {PyDict(<< <<(<<Ch.a>>), x>> >>) : x \in inner}

\* StructuredValue: what a caller assigns to the attribute
StructuredValues ==
  Leaves \cup ListsOf(Leaves, MaxListLen) \cup DictsOf(Leaves) \cup Nested

Prefixes(txt) == {SubSeq(txt, 1, k) : k \in 0..Len(txt)}
TextAlphabet ==
  {Ch.lbrace, Ch.rbrace, Ch.lbrack, Ch.rbrack, Ch.quote, Ch.one, Ch.a,
   Ch.space, Ch.minus}
ByteAlphabet ==
  {255, 195, 169, Ch.lbrace, Ch.rbrace, Ch.lbrack, Ch.rbrack, Ch.one}

\* text a column can hold: short strings, encoded values and their truncations
Texts ==
  SeqsUpTo(TextAlphabet, MaxTextLen)
    \cup {EncodeText(x, "json", FALSE) : x \in Leaves}
    \cup UNION {Prefixes(EncodeText(x, "json", FALSE)) : x \in Nested}

\* what the driver can hand to python_value
RawValues ==
  {PyNone, PyOther}
    \cup Leaves \cup Nested
    \cup {PyStr(txt) : txt \in Texts}
    \cup {PyBytes(bs) : bs \in SeqsUpTo(ByteAlphabet, MaxBytesLen)}

\* what a caller can hand to db_value
AssignedValues ==
  StructuredValues \cup {PyStr(txt) : txt \in Texts}
    \cup {PyOther, PyBytes(<<Ch.lbrace, Ch.rbrace>>)}

FieldConfigs ==
  [null_to_empty : BOOLEAN, ensure_ascii : BOOLEAN, loads : {"default", "raising"}]

(***************************************************************************)
(* The field part as a state machine: a value is written with db_value or  *)
(* arrives from the driver, is read with python_value, and the result is   *)
(* read once more.                                                         *)
(***************************************************************************)
\* model[attr] = value; save(): db_value converts the value for the column
DbValue ==
  /\ wrote = "none"
  /\ \E value \in AssignedValues :
       /\ assigned' = value
       /\ LET out == db_value(field, serializer, value)
          IN IF out = Raised
             THEN wrote' = "raised" /\ column' = column
             ELSE wrote' = "db_value" /\ column' = out
  /\ UNCHANGED <<serializer, field, loaded, reloaded, queryVars, probeVars>>

\* a row written by someone else: the driver returns its raw representation
DriverReturns ==
  /\ wrote = "none"
  /\ \E raw \in RawValues : column' = raw
  /\ wrote' = "raw"
  /\ UNCHANGED <<serializer, field, assigned, loaded, reloaded, queryVars,
                 probeVars>>

\* a select: python_value converts what the column holds
PythonValue ==
  /\ wrote \in {"db_value", "raw"}
  /\ loaded = Unset
  /\ loaded' = python_value(field, column)
  /\ UNCHANGED <<serializer, field, assigned, column, wrote, reloaded,
                 queryVars, probeVars>>

\* python_value applied to its own output
PythonValueAgain ==
  /\ loaded # Unset
  /\ reloaded = Unset
  /\ reloaded' = python_value(field, loaded)
  /\ UNCHANGED <<serializer, field, assigned, column, wrote, loaded,
                 queryVars, probeVars>>

(***************************************************************************)
(* Query helpers.  A peewee expression is a node [node, name, args]; SQLite *)
(* evaluates it on a row to NULL (PyNone), an INTEGER, a REAL, a TEXT      *)
(* (PyStr), or an error (Raised).                                          *)
(***************************************************************************)
Node(kind, name, args) == [node |-> kind, name |-> name, args |-> args]
ColumnRef == Node("column", "data", <<>>)
Literal(val) == Node("value", "", <<val>>)
Fn(name, args) == Node("call", name, args)
Cast(expr, as) == Node("cast", as, <<expr>>)
\* peewee: Node.__rshift__ is the IS operator (x >> None is "x IS NULL")
Rshift(lhs, rhs) == Node("op", "IS", <<lhs, Literal(rhs)>>)

\* mutant: JSON-quoted before the cast
json_extract_Quoted(path) ==
  Cast(Fn("json_quote", <<Fn("json_extract", <<ColumnRef, Literal(PyStr(path))>>)>>),
       "TEXT")

\* fn.json_extract(self, path).cast("TEXT")
json_extract(path) ==
  Cast(Fn("json_extract", <<ColumnRef, Literal(PyStr(path))>>), "TEXT")

\* fn.json_extract(self, path) >> None
contains_key(path) ==
  Rshift(Fn("json_extract", <<ColumnRef, Literal(PyStr(path))>>), PyNone)

\* A JSON path: $ followed by .label and [index] steps
PathStep(kind, key, idx) == [kind |-> kind, key |-> key, idx |-> idx]
PathError == <<PathStep("error", <<>>, 0)>>

RECURSIVE LabelEnd(_, _)
LabelEnd(path, i) ==
  IF i <= Len(path) /\ path[i] \notin {Ch.dot, Ch.lbrack}
  THEN LabelEnd(path, i + 1) ELSE i

RECURSIVE PathSteps(_, _)
PathSteps(path, i) ==
  IF i > Len(path) THEN <<>>
  ELSE IF path[i] = Ch.dot THEN
    LET e == LabelEnd(path, i + 1)
    IN IF e = i + 1 THEN PathError
       ELSE <<PathStep("key", SubSeq(path, i + 1, e - 1), 0)>> \o PathSteps(path, e)
  ELSE IF path[i] = Ch.lbrack THEN
    LET e == DigitsEnd(path, i + 1)
    IN IF e = i + 1 \/ e > Len(path) \/ path[e] # Ch.rbrack THEN PathError
       ELSE <<PathStep("idx", <<>>, DigitsValue(SubSeq(path, i + 1, e - 1)))>>
              \o PathSteps(path, e + 1)
  ELSE PathError

ParsePath(path) ==
  IF path = <<>> \/ path[1] # Ch.dollar THEN PathError ELSE PathSteps(path, 2)

PathOk(steps) == \A j \in 1..Len(steps) : steps[j].kind # "error"

\* the place in valid JSON text a path leads to: [found, from, to], where the
\* first member of an object with the label is the one taken
NotFound == [found |-> FALSE, from |-> 0, to |-> 0]

\* at "value" i is at a value the steps apply to; at "member" i is at a key of
\* the object the first step looks in (or at its closing brace); at "element" i
\* is at an element of the array the first step looks in, `skip` elements
\* before the one wanted (or at its closing bracket)
RECURSIVE SqlWalk(_, _, _, _, _)

\* next is at what follows a member or an element that was passed over
SqlWalkOn(txt, next, steps, at, skip) ==
  IF txt[next] = Ch.comma THEN SqlWalk(txt, SkipWs(txt, next + 1), steps, at, skip)
  ELSE NotFound

\* the member whose key is txt[from..to]; colon is at its colon
SqlWalkMember(txt, from, to, colon, steps) ==
  IF SubSeq(txt, from, to) = Head(steps).key
  THEN SqlWalk(txt, SkipWs(txt, colon + 1), Tail(steps), "value", 0)
  ELSE SqlWalkOn(txt, SkipWs(txt, ParseValue(txt, SkipWs(txt, colon + 1)).i),
                 steps, "member", 0)

SqlWalkKey(txt, i, keyEnd, steps) ==
  SqlWalkMember(txt, i + 1, keyEnd - 2, SkipWs(txt, keyEnd), steps)

SqlWalk(txt, i, steps, at, skip) ==
  IF at = "value" THEN
    IF steps = <<>>
      THEN [found |-> TRUE, from |-> i, to |-> ParseValue(txt, i).i - 1]
    ELSE IF Head(steps).kind = "key" /\ txt[i] = Ch.lbrace
      THEN SqlWalk(txt, SkipWs(txt, i + 1), steps, "member", 0)
    ELSE IF Head(steps).kind = "idx" /\ txt[i] = Ch.lbrack
      THEN SqlWalk(txt, SkipWs(txt, i + 1), steps, "element", Head(steps).idx)
    ELSE NotFound
  ELSE IF at = "member" THEN
    IF txt[i] = Ch.rbrace THEN NotFound
    ELSE SqlWalkKey(txt, i, ParseChars(txt, i + 1, <<>>).i, steps)
  ELSE
    IF txt[i] = Ch.rbrack THEN NotFound
    ELSE IF skip = 0 THEN SqlWalk(txt, i, Tail(steps), "value", 0)
    ELSE SqlWalkOn(txt, SkipWs(txt, ParseValue(txt, i).i), steps, "element",
                   skip - 1)

SqlLookup(txt, i, steps) == SqlWalk(txt, i, steps, "value", 0)

\* JSON text without the whitespace between its tokens
RECURSIVE Minify(_, _, _)
Minify(txt, i, inString) ==
  IF i > Len(txt) THEN <<>>
  ELSE IF inString /\ txt[i] = Ch.backslash /\ i < Len(txt)
    THEN <<txt[i], txt[i + 1]>> \o Minify(txt, i + 2, TRUE)
  ELSE IF txt[i] = Ch.quote THEN <<txt[i]>> \o Minify(txt, i + 1, ~inString)
  ELSE IF ~inString /\ IsWs(txt[i]) THEN Minify(txt, i + 1, FALSE)
  ELSE <<txt[i]>> \o Minify(txt, i + 1, inString)

\* what json_extract returns for the element el found at txt[from..to]
SqlElement(txt, from, to, el) ==
  IF el = PyNone THEN PyNone
  ELSE IF el.t = "bool" THEN PyInt(IF el.v THEN 1 ELSE 0)
  ELSE IF el.t \in {"int", "float", "str"} THEN el
  ELSE PyStr(Minify(SubSeq(txt, from, to), 1, FALSE))

SqlFound(txt, hit) ==
  IF ~hit.found THEN PyNone
  ELSE SqlElement(txt, hit.from, hit.to, ParseValue(txt, hit.from).v)

\* SQLite json_extract(X, P) with one (well-formed) path
SqlJsonExtract(x, path) ==
  IF x = Raised \/ path = Raised THEN Raised
  ELSE IF x = PyNone \/ path = PyNone THEN PyNone
  ELSE IF x.t # "str" \/ path.t # "str" THEN Raised
  ELSE IF ~IsValidJson(x.v) \/ ~PathOk(ParsePath(path.v)) THEN Raised
  ELSE SqlFound(x.v, SqlLookup(x.v, SkipWs(x.v, 1), ParsePath(path.v)))

\* SQLite json_quote(X)
SqlJsonQuote(x) ==
  IF x = Raised THEN Raised
  ELSE IF x = PyNone THEN PyStr(<<Ch.n, Ch.u, Ch.l, Ch.l>>)
  ELSE PyStr(EncodeText(x, "orjson", FALSE))

\* SQLite CAST(X AS TEXT)
SqlCastText(x) ==
  IF x = Raised \/ x = PyNone \/ x.t = "str" THEN x
  ELSE IF x.t = "int" THEN PyStr(EncodeInt(x.v))
  ELSE PyStr(EncodeFloat(x.v))

\* SQLite X IS Y
SqlIs(x, y) ==
  IF x = Raised \/ y = Raised THEN Raised ELSE PyInt(IF x = y THEN 1 ELSE 0)

RECURSIVE Eval(_, _)
Eval(expr, rowText) ==
  IF expr.node = "column" THEN rowText
  ELSE IF expr.node = "value" THEN expr.args[1]
  ELSE IF expr.node = "cast" THEN SqlCastText(Eval(expr.args[1], rowText))
  ELSE IF expr.node = "op" THEN
    SqlIs(Eval(expr.args[1], rowText), Eval(expr.args[2], rowText))
  ELSE IF expr.name = "json_extract" THEN
    SqlJsonExtract(Eval(expr.args[1], rowText), Eval(expr.args[2], rowText))
  ELSE SqlJsonQuote(Eval(expr.args[1], rowText))

\* rows and paths the query part is run on
Paths ==
  {<<Ch.dollar>>, <<Ch.dollar, Ch.dot, Ch.a>>, <<Ch.dollar, Ch.dot, Ch.b>>,
   <<Ch.dollar, Ch.lbrack, Ch.zero, Ch.rbrack>>,
   <<Ch.dollar, Ch.dot, Ch.a, Ch.dot, Ch.a>>,
   <<Ch.dollar, Ch.dot, Ch.a, Ch.lbrack, Ch.zero, Ch.rbrack>>}
RowValues ==
  Leaves \cup Nested \cup ListsOf(Leaves, 1) \cup DictsOf(Leaves)
    \cup {PyStr(txt) : txt \in SeqsUpTo(TextAlphabet, 2)}
    \cup {PyStr(<<Ch.lbrace, Ch.n, 111, Ch.t>>)}

\* a row is saved through the field: db_value writes the column text
InsertRow ==
  /\ row = Unset
  /\ \E value \in RowValues : row' = db_value(field, serializer, value)
  /\ UNCHANGED <<serializer, field, fieldVars, query, probeVars>>

\* Model.select().where(field.contains_key(path)): does the row match
ContainsKey ==
  /\ row # Unset
  /\ query = Unset
  /\ \E path \in Paths :
       query' = [helper |-> "contains_key", path |-> path,
                 result |-> Eval(contains_key(path), row)]
  /\ UNCHANGED <<serializer, field, fieldVars, row, probeVars>>

\* Model.select(field.json_extract(path)): the selected value
JsonExtract ==
  /\ row # Unset
  /\ query = Unset
  /\ \E path \in Paths :
       query' = [helper |-> "json_extract", path |-> path,
                 result |-> Eval(json_extract(path), row)]
  /\ UNCHANGED <<serializer, field, fieldVars, row, probeVars>>

(***************************************************************************)
(* 1. The JSON1 probe and its cache.  A handle is a peewee.Database object: *)
(* one the application opened, or a SqliteDatabase(":memory:") the probe   *)
(* made for itself.  Handles hash by identity.                             *)
(***************************************************************************)
Given(k) == [kind |-> "given", id |-> k]
Memory(k) == [kind |-> "memory", id |-> k]
NoDb == [kind |-> "none", id |-> 0]
Handles == {Given(1), Given(2)}

\* mutant: one module-level in-memory handle stands in for a missing handle
ProbeTarget_Shared(db, made) == IF db = NoDb THEN Memory(1) ELSE db

\* target = db or peewee.SqliteDatabase(":memory:")
ProbeTarget(db, made) == IF db = NoDb THEN Memory(made + 1) ELSE db

\* mutant: the outcome of the probe is not stored
_check_json1_NoStore(c, target, ok) ==
  IF target \in DOMAIN c
  THEN [cache |-> c, executed |-> FALSE, result |-> c[target]]
  ELSE [cache |-> c, executed |-> TRUE, result |-> ok]

\* _check_json1 from its second line on: c is _JSON1_CACHE, ok is whether
\* target.execute_sql("SELECT json(...)") would return without raising
_check_json1(c, target, ok) ==
  IF target \in DOMAIN c
  THEN [cache |-> c, executed |-> FALSE, result |-> c[target]]
  ELSE [cache |-> (target :> ok) @@ c, executed |-> TRUE, result |-> ok]

Count(f, h) == IF h \in DOMAIN f THEN f[h] ELSE 0
Executed(f, h, did) == IF did THEN (h :> Count(f, h) + 1) @@ f ELSE f

NoArgs == [model |-> 0, path |-> <<>>, unique |-> FALSE, name |-> <<>>]
Call(op, target, executed, result, args, repeat) ==
  [op |-> op, target |-> target, executed |-> executed, result |-> result,
   args |-> args, repeat |-> repeat]

\* _check_json1(db) on a handle of the application; the statement fails on a
\* build without JSON1, and may fail for any other reason
CheckJson1 ==
  \E db \in Handles, ok \in BOOLEAN :
    /\ ok => json1
    /\ LET target == ProbeTarget(db, nextHandle)
           r == _check_json1(cache, target, ok)
       IN /\ cache' = r.cache
          /\ executions' = Executed(executions, target, r.executed)
          /\ lastCall' = Call("_check_json1", target, r.executed,
                              PyBool(r.result), NoArgs, FALSE)
    /\ UNCHANGED <<serializer, field, fieldVars, queryVars, json1, nextHandle,
                   indexes, noneCalls, history>>

\* _check_json1(None): the probe runs on an in-memory handle of its own
CheckJson1None ==
  /\ noneCalls <= MaxCalls
  /\ LET target == ProbeTarget(NoDb, nextHandle)
         r == _check_json1(cache, target, json1)
     IN /\ cache' = r.cache
        /\ executions' = Executed(executions, target, r.executed)
        /\ lastCall' = Call("_check_json1", target, r.executed,
                            PyBool(r.result), NoArgs, FALSE)
  /\ nextHandle' = nextHandle + 1
  /\ noneCalls' = noneCalls + 1
  /\ UNCHANGED <<serializer, field, fieldVars, queryVars, json1, indexes,
                 history>>

\* "json_valid(" + col + ")"
JsonValidText(col) ==
  <<106, Ch.s, 111, Ch.n, Ch.underscore, 118, Ch.a, Ch.l, Ch.i, Ch.d, 40>>
    \o col \o <<41>>

\* field.ddl_check_valid() (the second definition in the class is the bound one)
DdlCheckValid ==
  /\ noneCalls <= MaxCalls
  /\ LET target == ProbeTarget(NoDb, nextHandle)
         r == _check_json1(cache, target, json1)
     IN /\ cache' = r.cache
        /\ executions' = Executed(executions, target, r.executed)
        /\ lastCall' = Call("ddl_check_valid", target, r.executed,
                            IF r.result THEN PyStr(JsonValidText(<<Ch.d>>))
                            ELSE Raised,
                            NoArgs, FALSE)
  /\ nextHandle' = nextHandle + 1
  /\ noneCalls' = noneCalls + 1
  /\ UNCHANGED <<serializer, field, fieldVars, queryVars, json1, indexes,
                 history>>

(***************************************************************************)
(* 3. create_json_index.                                                   *)
(***************************************************************************)
\* model._meta: the table name and the database of each model class
Models ==
  (1 :> [table_name |-> <<Ch.t>>, database |-> Given(1)])
    @@ (2 :> [table_name |-> <<Ch.u>>, database |-> Given(2)])
IndexedField == [name |-> <<Ch.d>>, column_name |-> <<Ch.c>>]
IndexPaths ==
  {<<Ch.dollar, Ch.dot, Ch.a>>,
   <<Ch.dollar, Ch.dot, Ch.a, Ch.lbrack, Ch.zero, Ch.rbrack>>}
IndexNames == {<<>>, <<Ch.x>>}      \* name=None (or ""), name="x"

RECURSIVE LStrip(_, _)
LStrip(str, c) == IF str # <<>> /\ Head(str) = c THEN LStrip(Tail(str), c) ELSE str

\* path.lstrip("$").replace(".", "_").replace("[", "_").replace("]", "")
RECURSIVE ReplaceSeparators(_)
ReplaceSeparators(str) ==
  IF str = <<>> THEN <<>>
  ELSE (IF Head(str) \in {Ch.dot, Ch.lbrack} THEN <<Ch.underscore>>
        ELSE IF Head(str) = Ch.rbrack THEN <<>>
        ELSE <<Head(str)>>) \o ReplaceSeparators(Tail(str))
SafePath(path) == ReplaceSeparators(LStrip(path, Ch.dollar))

\* name or f"{table}_{field.name}_{safe}_idx"
IndexName(table, fld, path, name) ==
  IF name # <<>> THEN name
  ELSE table \o <<Ch.underscore>> \o fld.name \o <<Ch.underscore>>
         \o SafePath(path) \o <<Ch.underscore, Ch.i, Ch.d, Ch.x>>

\* mutant: the statement without IF NOT EXISTS
IndexStatement_Plain(idx, table, col, path, unique) ==
  [if_not_exists |-> FALSE, unique |-> unique, name |-> idx, table |-> table,
   column |-> col, path |-> path]

\* CREATE [UNIQUE] INDEX IF NOT EXISTS "idx" ON "table" (json_extract("col", "path"));
IndexStatement(idx, table, col, path, unique) ==
  [if_not_exists |-> TRUE, unique |-> unique, name |-> idx, table |-> table,
   column |-> col, path |-> path]

HasIndex(ixs, name) == \E j \in 1..Len(ixs) : ixs[j].name = name

\* SQLite running a CREATE INDEX statement on a database whose indexes are ixs;
\* duplicates says whether the indexed values of the table rows repeat
ExecuteCreateIndex(ixs, stmt, duplicates) ==
  IF HasIndex(ixs, stmt.name)
  THEN [indexes |-> ixs, error |-> ~stmt.if_not_exists]
  ELSE IF stmt.unique /\ duplicates THEN [indexes |-> ixs, error |-> TRUE]
  ELSE [indexes |-> Append(ixs, [name |-> stmt.name, table |-> stmt.table,
                                 column |-> stmt.column, path |-> stmt.path,
                                 unique |-> stmt.unique]),
        error |-> FALSE]

CreateJsonIndex ==
  /\ noneCalls <= MaxCalls
  /\ \E m \in DOMAIN Models, path \in IndexPaths, unique \in BOOLEAN,
        name \in IndexNames, duplicates \in BOOLEAN :
       LET target == ProbeTarget(NoDb, nextHandle)
           r == _check_json1(cache, target, json1)
           db == Models[m].database
           table == Models[m].table_name
           col == IF IndexedField.column_name # <<>>
                  THEN IndexedField.column_name ELSE IndexedField.name
           idx == IndexName(table, IndexedField, path, name)
           run == ExecuteCreateIndex(indexes[db],
                    IndexStatement(idx, table, col, path, unique), duplicates)
           args == [model |-> m, path |-> path, unique |-> unique, name |-> name]
           failed == ~r.result \/ run.error
       IN /\ cache' = r.cache
          /\ executions' = Executed(executions, target, r.executed)
          /\ indexes' = IF r.result THEN [indexes EXCEPT ![db] = run.indexes]
                        ELSE indexes
          /\ lastCall' = Call("create_json_index", target, r.executed,
                              IF failed THEN Raised ELSE PyStr(idx),
                              args, args \in DOMAIN history)
          /\ history' = IF failed \/ args \in DOMAIN history THEN history
                        ELSE (args :> idx) @@ history
  /\ nextHandle' = nextHandle + 1
  /\ noneCalls' = noneCalls + 1
  /\ UNCHANGED <<serializer, field, fieldVars, queryVars, json1>>

(***************************************************************************)
(* Initial states.                                                         *)
(***************************************************************************)
\* module import: _FAST_DUMPS, _FAST_LOADS = _pick_serializer()
SerializerStart == serializer \in {_pick_serializer(inst) : inst \in SUBSET {"orjson", "ujson"}}

\* SQLiteJSONField(null_to_empty=True, *, ensure_ascii=False, dumps=None, loads=None)
DefaultField == [null_to_empty |-> TRUE, ensure_ascii |-> FALSE, loads |-> "default"]

FieldStart ==
  /\ assigned = Unset
  /\ column = Unset
  /\ wrote = "none"
  /\ loaded = Unset
  /\ reloaded = Unset

QueryStart ==
  /\ row = Unset
  /\ query = Unset

\* module import: JSON1_AVAILABLE = _check_json1(None) has run once
ProbeStart ==
  /\ json1 \in BOOLEAN
  /\ cache = _check_json1(<<>>, ProbeTarget(NoDb, 0), json1).cache
  /\ nextHandle = 1
  /\ executions = Executed(<<>>, ProbeTarget(NoDb, 0), TRUE)
  /\ indexes = [db \in Handles |-> <<>>]
  /\ noneCalls = 1
  /\ lastCall = Call("import", ProbeTarget(NoDb, 0), TRUE, PyBool(json1), NoArgs, FALSE)
  /\ history = <<>>

FieldInit ==
  /\ SerializerStart
  /\ field \in FieldConfigs
  /\ FieldStart /\ QueryStart /\ ProbeStart /\ json1

FieldNext ==
  \/ DbValue
  \/ DriverReturns
  \/ PythonValue
  \/ PythonValueAgain

FieldSpec == FieldInit /\ [][FieldNext]_vars

(***************************************************************************)
(* Properties of the field part (FieldSpec).                               *)
(***************************************************************************)
EmptyMarker == PyStr(<<Ch.lbrace, Ch.rbrace>>)

\* whether a raw text or bytes value is valid JSON as it stands
RawIsValidJson(raw) ==
  IF raw.t = "bytes"
  THEN Utf8Valid(raw.v) /\ IsValidJson(Utf8DecodeIgnore(raw.v))
  ELSE IsValidJson(raw.v)

\* C1 as stated: every value that is not text, null included, written with
\* db_value and read with python_value by the default pair, comes back equal.
C1_RoundTripAll ==
  (wrote = "db_value" /\ assigned.t # "str" /\ field.loads = "default"
     /\ loaded # Unset)
    => PyEq(loaded, assigned)

\* C1 amended: every value that is neither text nor null comes back equal
\* under either setting of null_to_empty; null comes back as the empty mapping.
C1_RoundTripNonNull ==
  (wrote = "db_value" /\ assigned.t # "str" /\ field.loads = "default"
     /\ loaded # Unset)
    => IF assigned = PyNone THEN loaded = EmptyDict ELSE PyEq(loaded, assigned)

C1_Witness ==
  /\ wrote = "db_value"
  /\ assigned.t = "dict" /\ Len(assigned.v) = 2
  /\ assigned.v[1][2] = PyStr(<<Ch.quote>>)
  /\ assigned.v[2][2] = PyInt(0)
  /\ ~field.null_to_empty
  /\ field.loads = "default"
  /\ PyEq(loaded, assigned)

C3_ColumnAlwaysJson ==
  wrote = "db_value" =>
    \/ column = PyNone
    \/ column.t = "str" /\ IsValidJson(column.v)
    \/ column = EmptyMarker /\ field.null_to_empty

\* C3 amended: for a value that is not text, what db_value returns with the
\* default encoder is valid JSON text, the marker "{}" (for null with
\* null_to_empty) or null (for null without it); text is returned unchanged,
\* valid JSON or not.
C3_NonTextColumnJson ==
  wrote = "db_value" =>
    IF assigned.t = "str" THEN column = assigned
    ELSE IF assigned = PyNone
      THEN column = (IF field.null_to_empty THEN EmptyMarker ELSE PyNone)
    ELSE column.t = "str" /\ IsValidJson(column.v)

C3_Witness ==
  /\ wrote = "db_value"
  /\ assigned.t = "list" /\ Len(assigned.v) = 2
  /\ assigned.v[1] = PyBool(TRUE)
  /\ assigned.v[2] = PyStr(<<Ch.eacute>>)
  /\ field.ensure_ascii
  /\ IsValidJson(column.v)

\* C8: db_value(None) is "{}" with null_to_empty and null without it; the null
\* that is stored without it reads back as {} and not as None.
C8_NoneToColumn ==
  (wrote = "db_value" /\ assigned = PyNone) =>
    /\ column = (IF field.null_to_empty THEN EmptyMarker ELSE PyNone)
    /\ loaded # Unset => (loaded = EmptyDict /\ loaded # PyNone)

C8_Witness ==
  /\ wrote = "db_value"
  /\ assigned = PyNone
  /\ ~field.null_to_empty
  /\ column = PyNone
  /\ loaded = EmptyDict

\* C9 as stated: python_value applied to its own output changes nothing, for
\* every raw representation.
C9_IdempotentAll == reloaded # Unset => PyEq(reloaded, loaded)

\* C9 amended: python_value applied to its own output changes nothing whenever
\* that output is a mapping, a sequence, a number or a boolean, which it is for
\* every raw null, mapping, sequence, number and boolean.
C9_IdempotentOnPassThrough ==
  reloaded # Unset =>
    /\ loaded.t \in {"dict", "list", "int", "float", "bool"}
         => PyEq(reloaded, loaded)
    /\ column.t \in {"none", "dict", "list", "int", "float", "bool"}
         => PyEq(reloaded, loaded)

C9_Witness ==
  /\ column.t = "str"
  /\ loaded.t = "list" /\ Len(loaded.v) = 1
  /\ reloaded = loaded

QueryInit ==
  /\ SerializerStart
  /\ field \in {f \in FieldConfigs : f.loads = "default"}
  /\ FieldStart /\ QueryStart /\ ProbeStart /\ json1

QueryNext ==
  \/ InsertRow
  \/ ContainsKey
  \/ JsonExtract

QuerySpec == QueryInit /\ [][QueryNext]_vars

(***************************************************************************)
(* Properties of the query part (QuerySpec).                               *)
(***************************************************************************)
\* the element of a decoded document a path leads to: [found, v]
RECURSIVE Lookup(_, _)
Lookup(doc, steps) ==
  IF steps = <<>> THEN [found |-> TRUE, v |-> doc]
  ELSE LET st == Head(steps) IN
    IF st.kind = "key" /\ doc.t = "dict"
         /\ \E j \in 1..Len(doc.v) : doc.v[j][1] = st.key
      THEN Lookup(doc.v[CHOOSE j \in 1..Len(doc.v) : doc.v[j][1] = st.key][2],
                  Tail(steps))
    ELSE IF st.kind = "idx" /\ doc.t = "list" /\ st.idx + 1 <= Len(doc.v)
      THEN Lookup(doc.v[st.idx + 1], Tail(steps))
    ELSE [found |-> FALSE, v |-> PyNone]

\* what the queried row's text holds at the query's path: [valid, found, v]
Target ==
  LET doc == IF row.t = "str" THEN ParseDocument(row.v) ELSE ParseFail
      hit == IF doc.ok THEN Lookup(doc.v, ParsePath(query.path))
             ELSE [found |-> FALSE, v |-> PyNone]
  IN [valid |-> doc.ok, found |-> hit.found, v |-> hit.v]

\* C4: the contains_key predicate is true on a row whose column is valid JSON
\* with the path's key present (a JSON null value included), and false when the
\* key is absent or the column text is malformed.
C4_ContainsKeyPresent ==
  (query # Unset /\ query.helper = "contains_key" /\ row.t = "str") =>
    query.result = PyInt(IF Target.valid /\ Target.found THEN 1 ELSE 0)

\* C5 as stated: what json_extract(path) selects is valid JSON text for every
\* extracted type; a string leaf comes JSON-quoted.
C5_ExtractIsJsonText ==
  (query # Unset /\ query.helper = "json_extract" /\ Target.found) =>
    /\ query.result.t = "str"
    /\ IsValidJson(query.result.v)
    /\ PyEq(ParseDocument(query.result.v).v, Target.v)

\* C5 amended: json_extract(path) builds CAST(json_extract(col, path) AS TEXT);
\* what it selects is valid JSON text of the extracted value for a number, an
\* object or an array, the bare unquoted text for a string leaf, the text 1 or 0
\* for a boolean, and NULL for a JSON null.
C5_ExtractCastText ==
  (query # Unset /\ query.helper = "json_extract" /\ Target.found) =>
    IF Target.v.t = "str" THEN query.result = PyStr(Target.v.v)
    ELSE IF Target.v.t = "none" THEN query.result = PyNone
    ELSE IF Target.v.t = "bool"
      THEN query.result = PyStr(IF Target.v.v THEN <<Ch.one>> ELSE <<Ch.zero>>)
    ELSE /\ query.result.t = "str"
         /\ IsValidJson(query.result.v)
         /\ PyEq(ParseDocument(query.result.v).v, Target.v)

C5_Witness ==
  /\ query # Unset /\ query.helper = "json_extract"
  /\ query.path = <<Ch.dollar, Ch.dot, Ch.a>>
  /\ Target.found /\ Target.v = PyStr(<<Ch.a>>)
  /\ query.result = PyStr(<<Ch.a>>)
  /\ EncodeStr(<<Ch.a>>, serializer, FALSE) # query.result.v

ProbeInit ==
  /\ serializer = _pick_serializer({})
  /\ field = DefaultField
  /\ FieldStart /\ QueryStart /\ ProbeStart

ProbeNext ==
  \/ CheckJson1
  \/ CheckJson1None
  \/ DdlCheckValid
  \/ CreateJsonIndex

ProbeSpec == ProbeInit /\ [][ProbeNext]_vars

(***************************************************************************)
(* Properties of the probe and index part (ProbeSpec).                     *)
(***************************************************************************)
\* C6: the probe statement is executed on a handle at most once; once a handle
\* is cached, a call for it executes nothing and returns the cached boolean, and
\* its entry is never removed or overwritten (false stays false).
C6_ProbedOnce ==
  /\ [](\A h \in DOMAIN executions : executions[h] <= 1)
  /\ [][\A h \in DOMAIN cache :
          /\ h \in DOMAIN cache' /\ cache'[h] = cache[h]
          /\ Count(executions', h) = Count(executions, h)
          /\ (lastCall'.op = "_check_json1" /\ lastCall'.target = h)
               => (~lastCall'.executed /\ lastCall'.result = PyBool(cache[h]))]_vars

C6_Witness ==
  /\ lastCall.op = "_check_json1"
  /\ lastCall.target = Given(2)
  /\ ~lastCall.executed
  /\ lastCall.result = PyBool(FALSE)
  /\ json1
  /\ executions[Given(2)] = 1

C10_NoHandleNeverCached ==
  /\ Cardinality({h \in DOMAIN cache : h.kind = "memory"}) = noneCalls
  /\ \A k \in 1..noneCalls :
       Memory(k) \in DOMAIN cache /\ Count(executions, Memory(k)) = 1
  /\ lastCall.target.kind = "memory" => lastCall.executed

C10_Witness ==
  /\ noneCalls = 3
  /\ lastCall.op = "ddl_check_valid"
  /\ Cardinality({h \in DOMAIN cache : h.kind = "memory"}) = 3
  /\ Cardinality(DOMAIN history) = 1

====
